---- MODULE Spec2Model ----
(***************************************************************************)
(* A model of main.py of phd_listing_agent: load_config, the link scan of  *)
(* get_project_links, and the pipeline of main_agent (query generation,    *)
(* link harvest, page fetch, field extraction, accept/skip, CSV write).    *)
(*                                                                         *)
(* Strings are sequences of tokens, so that prefix tests, concatenation    *)
(* and fence stripping are computed rather than assumed.  Python values    *)
(* are records of one shape (type, keys, val, n, s), so that any two of    *)
(* them can be compared.                                                   *)
(***************************************************************************)
EXTENDS Integers, Sequences, FiniteSets, TLC

VARIABLES
    \* ---- load_config ----
    config,          \* the parsed settings object: required key -> value or Absent
    config_result,   \* what load_config did: pending / returned / ValueError
    \* ---- get_project_links ----
    hrefs,           \* the hyperlink targets of the fetched page, in page order
    links,           \* the list links being built by the scan
    scan_i,          \* number of hyperlinks already scanned
    \* ---- main_agent ----
    pc,              \* position in main_agent
    max_projects,    \* the caller's cap: None or an int
    response_text,   \* the query-generation model response
    search_queries,  \* the parsed list of query URLs
    query_idx,       \* 1-based index of the current query (0 before the loop)
    project_links,   \* links harvested for the current query
    link_idx,        \* 1-based index of the current link
    url,             \* the current link
    text_blob,       \* length of the text returned by get_clean_text
    project_info,    \* value returned by extract_project_info
    all_projects,    \* the accepted records
    csv_writes,      \* number of times phd_listings.csv was written
    csv_columns,     \* header of the written file
    csv_rows,        \* rows of the written file
    harvests,        \* number of get_project_links calls
    fetches,         \* number of get_clean_text calls
    llm_calls,       \* number of field-extraction model calls
    \* ---- history of the run (not program state) ----
    long_links,      \* number of fetched links whose blob had >= MinBlobLen chars
    fetched_url,     \* the link last passed to get_clean_text
    called,          \* whether the model was called for the current link
    accepted_from    \* per accepted record: where it came from

configVars == <<config, config_result>>
scanVars == <<hrefs, links, scan_i>>
mainVars == <<pc, max_projects, response_text, search_queries, query_idx,
              project_links, link_idx, url, text_blob, project_info,
              all_projects, csv_writes, csv_columns, csv_rows, harvests,
              fetches, llm_calls, long_links, fetched_url, called,
              accepted_from>>
vars == <<configVars, scanVars, mainVars>>

----------------------------------------------------------------------------
(* Bounds of the model. *)

\* largest cap the caller supplies
MaxCap == 2
\* largest number of hyperlinks on a search-results page in a run of main_agent
MaxHrefs == 2
\* largest number of hyperlinks on a page in the stand-alone link scan
MaxScan == 3

(* Program constants. *)

\* the minimum blob length of extract_project_info
MinBlobLen == 50

----------------------------------------------------------------------------
(* Helpers on sequences. *)

Range(s) == {s[i] : i \in 1..Len(s)}

InSeq(x, s) == \E i \in 1..Len(s) : s[i] = x

SeqsUpTo(S, n) == UNION {[1..k -> S] : k \in 0..n}

----------------------------------------------------------------------------
(* Python values. *)

AllKeys == {"title", "university", "url"}

NoVals == [k \in AllKeys |-> <<>>]

PyNone == [type |-> "None", keys |-> <<>>, val |-> NoVals, n |-> 0, s |-> <<>>]

PyInt(i) == [type |-> "int", keys |-> <<>>, val |-> NoVals, n |-> i, s |-> <<>>]

PyStr(str) == [type |-> "str", keys |-> <<>>, val |-> NoVals, n |-> Len(str), s |-> str]

\* a list of n numbers
PyList(len) == [type |-> "list", keys |-> <<>>, val |-> NoVals, n |-> len, s |-> <<>>]

\* a dict with the given keys, in insertion order
PyDict(ks, vs) ==
    [type |-> "dict", keys |-> ks,
     val |-> [k \in AllKeys |-> IF InSeq(k, ks) THEN vs[k] ELSE <<>>],
     n |-> Len(ks), s |-> <<>>]

\* a key that the settings object does not have
Absent == [type |-> "absent", keys |-> <<>>, val |-> NoVals, n |-> 0, s |-> <<>>]

\* Python's truth value: None, 0, "", [] and {} are false
Truthy(v) ==
    CASE v.type = "None" -> FALSE
      [] v.type = "int" -> v.n # 0
      [] v.type = "str" -> v.n > 0
      [] v.type = "list" -> v.n > 0
      [] v.type = "dict" -> v.n > 0
      [] OTHER -> FALSE

----------------------------------------------------------------------------
(* load_config *)

required_fields == <<"api_key", "api_base", "model_name">>

\* the values a key of the settings file can hold
ConfigValues ==
    {Absent, PyNone, PyStr(<<>>), PyStr(<<"v">>), PyInt(0), PyInt(123)}

Configs == [Range(required_fields) -> ConfigValues]

\* field not in config or not config[field]
FieldMissing(cfg, f) == cfg[f].type = "absent" \/ ~Truthy(cfg[f])

missing_fields(cfg) ==
    SelectSeq(required_fields, LAMBDA f : FieldMissing(cfg, f))

Pending == [status |-> "pending", missing |-> <<>>, triple |-> <<>>]

load_config(cfg) ==
    IF missing_fields(cfg) # <<>>
    THEN [status |-> "ValueError", missing |-> missing_fields(cfg), triple |-> <<>>]
    ELSE [status |-> "returned", missing |-> <<>>,
          triple |-> <<cfg["api_key"], cfg["api_base"], cfg["model_name"]>>]

LoadConfig ==
    /\ config_result.status = "pending"
    /\ config_result' = load_config(config)
    /\ UNCHANGED <<config, scanVars, mainVars>>

----------------------------------------------------------------------------
(* get_project_links: the scan of the hyperlinks of a fetched page *)

BASE == "https://www.findaphd.com"

MIRROR == "http://mirror.example"

MARKER == "/phds/"

\* the tokens that begin with the characters http
HttpTokens == {BASE, MIRROR}

\* the hyperlink targets a page is made of
Hrefs ==
    { <<MARKER, "a">>,            \* relative, a project
      <<BASE, MARKER, "a">>,      \* absolute, the same project
      <<MARKER, "b">>,            \* relative, another project
      <<MIRROR, MARKER, "a">>,    \* absolute, another site
      <<"/about/">>,              \* relative, no marker
      <<BASE, "/about/">> }       \* absolute, no marker

\* "/phds/" in href
HasMarker(href) == InSeq(MARKER, href)

\* href.startswith('http')
StartsWithHttp(href) == href # <<>> /\ Head(href) \in HttpTokens

\* href if href.startswith('http') else "https://www.findaphd.com" + href
Qualify(href) == IF StartsWithHttp(href) THEN href ELSE <<BASE>> \o href

\* the scan without the test for a URL already in the list
ScanStepNoDedup(ls, href) ==
    IF HasMarker(href) THEN Append(ls, Qualify(href)) ELSE ls

\* one iteration of the loop over the hyperlinks
ScanStep(ls, href) ==
    IF HasMarker(href)
    THEN IF ~InSeq(Qualify(href), ls) THEN Append(ls, Qualify(href)) ELSE ls
    ELSE ls

RECURSIVE ScanFrom(_, _, _)
ScanFrom(ls, page, i) ==
    IF i > Len(page) THEN ls ELSE ScanFrom(ScanStep(ls, page[i]), page, i + 1)

\* the list returned for a successfully fetched page
get_project_links(page) == ScanFrom(<<>>, page, 1)

ScanHref ==
    /\ scan_i < Len(hrefs)
    /\ links' = ScanStep(links, hrefs[scan_i + 1])
    /\ scan_i' = scan_i + 1
    /\ UNCHANGED <<hrefs, configVars, mainVars>>

----------------------------------------------------------------------------
(* generate_search_queries: fence stripping and json.loads *)

\* the opening fence of a json code block (three backquotes and the word json)
FENCE_JSON == "<fence>json"

\* a bare fence (three backquotes)
FENCE == "<fence>"

NL == "\n"

\* JSON string literals (query URLs) and a JSON number
StringLits == {"Q1", "Q2"}

NumberLits == {"5"}

\* response_text.removeprefix(FENCE_JSON)
removeprefix(text) ==
    IF text # <<>> /\ Head(text) = FENCE_JSON THEN Tail(text) ELSE text

\* text.removesuffix(FENCE)
removesuffix(text) ==
    IF text # <<>> /\ text[Len(text)] = FENCE
    THEN SubSeq(text, 1, Len(text) - 1)
    ELSE text

StripFences(text) == removesuffix(removeprefix(text))

\* the elements of a JSON array body: scalars separated by commas
IsArrayBody(b) ==
    \/ b = <<>>
    \/ /\ Len(b) % 2 = 1
       /\ \A i \in 1..Len(b) :
            IF i % 2 = 1 THEN b[i] \in StringLits \cup NumberLits ELSE b[i] = ","

ArrayItems(b) == [i \in 1..((Len(b) + 1) \div 2) |-> <<b[2 * i - 1]>>]

\* json.loads: whitespace between tokens is insignificant; a document is one
\* scalar or one array of scalars; anything else is a JSONDecodeError
json_loads(text) ==
    LET t == SelectSeq(text, LAMBDA x : x # NL)
        n == Len(t)
    IN  IF n = 1 /\ t[1] \in StringLits
        THEN [ok |-> TRUE, type |-> "str", items |-> <<>>]
        ELSE IF n = 1 /\ t[1] \in NumberLits
        THEN [ok |-> TRUE, type |-> "int", items |-> <<>>]
        ELSE IF n >= 2 /\ t[1] = "[" /\ t[n] = "]" /\ IsArrayBody(SubSeq(t, 2, n - 1))
        THEN [ok |-> TRUE, type |-> "list", items |-> ArrayItems(SubSeq(t, 2, n - 1))]
        ELSE [ok |-> FALSE, type |-> "JSONDecodeError", items |-> <<>>]

\* the model responses to the query-generation prompt
QueryResponses ==
    { <<"[", "Q1", "]">>,
      <<"[", "Q1", ",", "Q2", "]">>,
      <<FENCE_JSON, NL, "[", "Q1", "]", NL, FENCE>>,
      <<"[", "]">>,
      <<FENCE, NL, "[", "Q1", "]", NL, FENCE>>,
      <<FENCE_JSON, NL, "[", "Q1", "]", NL, FENCE, NL>>,
      <<"Here", "[", "Q1", "]">>,
      <<"[", "Q1", ",", "]">>,
      <<>>,
      <<"5">> }

----------------------------------------------------------------------------
(* extract_project_info and the record it yields *)

ModelUrl == <<MIRROR, MARKER, "z">>

Vals(t, u, l) ==
    [k \in AllKeys |->
        CASE k = "title" -> t [] k = "university" -> u [] k = "url" -> l]

\* the model responses to the field-extraction prompt:
\* text that is not JSON, or a JSON document of some type
ExtractResponses ==
    { [valid |-> FALSE, value |-> PyNone],
      [valid |-> TRUE, value |-> PyNone],
      [valid |-> TRUE, value |-> PyDict(<<>>, NoVals)],
      [valid |-> TRUE, value |-> PyDict(<<"title">>, Vals(<<"T">>, <<>>, <<>>))],
      [valid |-> TRUE,
       value |-> PyDict(<<"url", "title">>, Vals(<<"T">>, <<>>, ModelUrl))],
      [valid |-> TRUE, value |-> PyList(1)] }

\* the lengths of the text get_clean_text returns (0: fetch failed or no text)
BlobLens == {0, MinBlobLen - 1, MinBlobLen}

\* the guard without the length test
BlobTooShortNoLen(len) == len = 0

\* the guard with <= for <
BlobTooShortInclusive(len) == len = 0 \/ len <= MinBlobLen

\* not text_blob or len(text_blob) < 50
BlobTooShort(len) == len = 0 \/ len < MinBlobLen

\* json.loads(response_text) with JSONDecodeError turned into None
ParseExtraction(resp) == IF resp.valid THEN resp.value ELSE PyNone

\* d[k] = v
SetItem(d, k, v) ==
    [d EXCEPT !.keys = IF InSeq(k, d.keys) THEN d.keys ELSE Append(d.keys, k),
              !.n = IF InSeq(k, d.keys) THEN d.n ELSE d.n + 1,
              !.val[k] = v]

\* project_info.setdefault("url", url): a url the model gave is kept
AttachUrlIfAbsent(info, link) ==
    IF InSeq("url", info.keys) THEN info ELSE SetItem(info, "url", link)

\* project_info["url"] = url
AttachUrl(info, link) == SetItem(info, "url", link)

----------------------------------------------------------------------------
(* the CSV: pd.DataFrame(all_projects).to_csv(index=False) *)

RECURSIVE MergeKeys(_, _, _)
MergeKeys(cols, ks, i) ==
    IF i > Len(ks) THEN cols
    ELSE MergeKeys(IF InSeq(ks[i], cols) THEN cols ELSE Append(cols, ks[i]), ks, i + 1)

\* the columns: the keys of the records in order of first appearance
RECURSIVE DataFrameColumns(_, _, _)
DataFrameColumns(cols, projects, i) ==
    IF i > Len(projects) THEN cols
    ELSE DataFrameColumns(MergeKeys(cols, projects[i].keys, 1), projects, i + 1)

\* one row: the record's value per column, empty where the record has no such key
CsvRow(cols, rec) ==
    [j \in 1..Len(cols) |-> IF InSeq(cols[j], rec.keys) THEN rec.val[cols[j]] ELSE <<>>]

to_csv(projects) ==
    LET cols == DataFrameColumns(<<>>, projects, 1)
    IN  [columns |-> cols,
         rows |-> [i \in 1..Len(projects) |-> CsvRow(cols, projects[i])]]

----------------------------------------------------------------------------
(* main_agent *)

\* the caps a caller passes: None (the default) or a count
Caps == {PyNone} \cup {PyInt(c) : c \in 0..MaxCap}

\* the search-results pages a query can fetch
Pages == SeqsUpTo(Hrefs, MaxHrefs)

\* the cap test with > for >=
CapReachedOffByOne(cap, projects) == Truthy(cap) /\ Len(projects) > cap.n

\* max_projects and len(all_projects) >= max_projects
CapReached(cap, projects) == Truthy(cap) /\ Len(projects) >= cap.n

\* the top of the loop over the queries: the next query, or the end of the loop
QueryLoop(queries, i) ==
    IF i <= Len(queries) THEN [pc |-> "query", q |-> i] ELSE [pc |-> "persist", q |-> i]

\* the end of the loop over the links of a page, and the cap check after it
EndOfPage(cap, projects) ==
    IF CapReached(cap, projects)
    THEN [pc |-> "persist", q |-> query_idx, l |-> link_idx]
    ELSE [pc |-> QueryLoop(search_queries, query_idx + 1).pc,
          q |-> query_idx + 1, l |-> link_idx]

\* the next iteration of the loop over the links
NextLink(cap, projects) ==
    IF link_idx < Len(project_links)
    THEN [pc |-> "link", q |-> query_idx, l |-> link_idx + 1]
    ELSE EndOfPage(cap, projects)

\* a handler that goes on with a fallback query instead of returning
OnQueryDecodeErrorFallback == [pc |-> "query", queries |-> << <<"Q1">> >>, q |-> 1]

\* except json.JSONDecodeError: log and return
OnQueryDecodeError == [pc |-> "aborted", queries |-> <<>>, q |-> 0]

\* Step 1: one model call, fence stripping, json.loads, len(queries)
GenerateQueries ==
    /\ pc = "start"
    /\ \E r \in QueryResponses :
         LET parsed == json_loads(StripFences(r))
         IN  /\ response_text' = r
             /\ IF ~parsed.ok
                THEN /\ pc' = OnQueryDecodeError.pc
                     /\ search_queries' = OnQueryDecodeError.queries
                     /\ query_idx' = OnQueryDecodeError.q
                ELSE IF parsed.type = "int"
                THEN \* len(queries) raises TypeError, which nothing catches
                     /\ pc' = "crashed"
                     /\ UNCHANGED <<search_queries, query_idx>>
                ELSE \* a list (no response of QueryResponses is a lone string,
                     \* which the loop would iterate character by character)
                     /\ parsed.type = "list"
                     /\ search_queries' = parsed.items
                     /\ pc' = QueryLoop(parsed.items, 1).pc
                     /\ query_idx' = 1
    /\ UNCHANGED <<max_projects, project_links, link_idx, url, text_blob,
                   project_info, all_projects, csv_writes, csv_columns, csv_rows,
                   harvests, fetches, llm_calls, long_links, fetched_url, called,
                   accepted_from, configVars, scanVars>>

\* Step 2: get_project_links(query_url), and continue when it found nothing
HarvestLinks ==
    /\ pc = "query"
    /\ \E found \in {<<>>} \cup {get_project_links(p) : p \in Pages} :
         /\ project_links' = found
         /\ harvests' = harvests + 1
         /\ IF found = <<>>
            THEN /\ pc' = QueryLoop(search_queries, query_idx + 1).pc
                 /\ query_idx' = query_idx + 1
                 /\ UNCHANGED link_idx
            ELSE /\ pc' = "link"
                 /\ link_idx' = 1
                 /\ UNCHANGED query_idx
    /\ UNCHANGED <<max_projects, response_text, search_queries, url, text_blob,
                   project_info, all_projects, csv_writes, csv_columns, csv_rows,
                   fetches, llm_calls, long_links, fetched_url, called,
                   accepted_from, configVars, scanVars>>

\* the top of the loop over the links: the cap check
BeginLink ==
    /\ pc = "link"
    /\ url' = project_links[link_idx]
    /\ IF CapReached(max_projects, all_projects)
       THEN /\ pc' = EndOfPage(max_projects, all_projects).pc
            /\ query_idx' = EndOfPage(max_projects, all_projects).q
       ELSE /\ pc' = "fetch"
            /\ UNCHANGED query_idx
    /\ UNCHANGED <<max_projects, response_text, search_queries, project_links,
                   link_idx, text_blob, project_info, all_projects, csv_writes,
                   csv_columns, csv_rows, harvests, fetches, llm_calls, long_links,
                   fetched_url, called, accepted_from, configVars, scanVars>>

\* Step 3: get_clean_text(url), and continue when it returned no text
FetchText ==
    /\ pc = "fetch"
    /\ \E len \in BlobLens :
         /\ text_blob' = len
         /\ long_links' = long_links + (IF len >= MinBlobLen THEN 1 ELSE 0)
         /\ IF len = 0
            THEN /\ pc' = NextLink(max_projects, all_projects).pc
                 /\ query_idx' = NextLink(max_projects, all_projects).q
                 /\ link_idx' = NextLink(max_projects, all_projects).l
            ELSE /\ pc' = "extract"
                 /\ UNCHANGED <<query_idx, link_idx>>
    /\ fetches' = fetches + 1
    /\ fetched_url' = url
    /\ called' = FALSE
    /\ UNCHANGED <<max_projects, response_text, search_queries, project_links,
                   url, project_info, all_projects, csv_writes, csv_columns,
                   csv_rows, harvests, llm_calls, accepted_from, configVars,
                   scanVars>>

\* Step 4: extract_project_info(text_blob, url)
ExtractInfo ==
    /\ pc = "extract"
    /\ IF BlobTooShort(text_blob)
       THEN /\ project_info' = PyNone
            /\ UNCHANGED <<llm_calls, called>>
       ELSE \E resp \in ExtractResponses :
              /\ project_info' = ParseExtraction(resp)
              /\ llm_calls' = llm_calls + 1
              /\ called' = TRUE
    /\ pc' = "accept"
    /\ UNCHANGED <<max_projects, response_text, search_queries, query_idx,
                   project_links, link_idx, url, text_blob, all_projects,
                   csv_writes, csv_columns, csv_rows, harvests, fetches,
                   long_links, fetched_url, accepted_from, configVars, scanVars>>

\* if project_info: attach the url and append; else skip the link.
\* The iteration ends here: text_blob and project_info are assigned again before
\* they are next read, so the model forgets their values (states that differ
\* only in a value the program can no longer read are one state).
AcceptOrSkip ==
    /\ pc = "accept"
    /\ IF Truthy(project_info)
       THEN IF project_info.type = "dict"
            THEN LET projects == Append(all_projects, AttachUrl(project_info, url))
                 IN  /\ all_projects' = projects
                     /\ accepted_from' =
                          Append(accepted_from,
                                 [q |-> query_idx, l |-> link_idx,
                                  link |-> fetched_url, blob |-> text_blob,
                                  called |-> called])
                     /\ pc' = NextLink(max_projects, projects).pc
                     /\ query_idx' = NextLink(max_projects, projects).q
                     /\ link_idx' = NextLink(max_projects, projects).l
                     /\ text_blob' = 0
                     /\ project_info' = PyNone
                     /\ called' = FALSE
            ELSE \* project_info["url"] = url raises TypeError, which nothing catches
                 /\ pc' = "crashed"
                 /\ UNCHANGED <<all_projects, accepted_from, query_idx, link_idx,
                                text_blob, project_info, called>>
       ELSE /\ pc' = NextLink(max_projects, all_projects).pc
            /\ query_idx' = NextLink(max_projects, all_projects).q
            /\ link_idx' = NextLink(max_projects, all_projects).l
            /\ text_blob' = 0
            /\ project_info' = PyNone
            /\ called' = FALSE
            /\ UNCHANGED <<all_projects, accepted_from>>
    /\ UNCHANGED <<max_projects, response_text, search_queries, project_links,
                   url, csv_writes, csv_columns, csv_rows,
                   harvests, fetches, llm_calls, long_links, fetched_url,
                   configVars, scanVars>>

\* Step 5: write the CSV when there is a record, and return
Persist ==
    /\ pc = "persist"
    /\ IF all_projects # <<>>
       THEN /\ csv_writes' = csv_writes + 1
            /\ csv_columns' = to_csv(all_projects).columns
            /\ csv_rows' = to_csv(all_projects).rows
       ELSE UNCHANGED <<csv_writes, csv_columns, csv_rows>>
    /\ pc' = "done"
    /\ UNCHANGED <<max_projects, response_text, search_queries, query_idx,
                   project_links, link_idx, url, text_blob, project_info,
                   all_projects, harvests, fetches, llm_calls, long_links,
                   fetched_url, called, accepted_from, configVars, scanVars>>

----------------------------------------------------------------------------
(* The specifications. *)

ConfigIdle == config = [f \in Range(required_fields) |-> Absent] /\ config_result = Pending

ScanIdle == hrefs = <<>> /\ links = <<>> /\ scan_i = 0

MainIdle ==
    /\ pc = "start"
    /\ response_text = <<>>
    /\ search_queries = <<>>
    /\ query_idx = 0
    /\ project_links = <<>>
    /\ link_idx = 0
    /\ url = <<>>
    /\ text_blob = 0
    /\ project_info = PyNone
    /\ all_projects = <<>>
    /\ csv_writes = 0
    /\ csv_columns = <<>>
    /\ csv_rows = <<>>
    /\ harvests = 0
    /\ fetches = 0
    /\ llm_calls = 0
    /\ long_links = 0
    /\ fetched_url = <<>>
    /\ called = FALSE
    /\ accepted_from = <<>>

\* a run of main_agent, for every cap
Init == ConfigIdle /\ ScanIdle /\ MainIdle /\ max_projects \in Caps

Next ==
    \/ GenerateQueries
    \/ HarvestLinks
    \/ BeginLink
    \/ FetchText
    \/ ExtractInfo
    \/ AcceptOrSkip
    \/ Persist

Spec == Init /\ [][Next]_vars

\* load_config, for every settings object
InitConfig ==
    /\ config \in Configs
    /\ config_result = Pending
    /\ ScanIdle /\ MainIdle /\ max_projects = PyNone

NextConfig == LoadConfig

SpecConfig == InitConfig /\ [][NextConfig]_vars

\* the link scan, for every page
InitScan ==
    /\ hrefs \in SeqsUpTo(Hrefs, MaxScan)
    /\ links = <<>>
    /\ scan_i = 0
    /\ ConfigIdle /\ MainIdle /\ max_projects = PyNone

NextScan == ScanHref

SpecScan == InitScan /\ [][NextScan]_vars

----------------------------------------------------------------------------
(* Properties. *)

RunEnded == pc \in {"done", "aborted", "crashed"}

\* a positive cap has been reached
PositiveCapReached ==
    /\ max_projects.type = "int"
    /\ max_projects.n > 0
    /\ Len(all_projects) >= max_projects.n

\* C1: for every cap the caller supplies, 0 included, the number of accepted
\* records never exceeds the cap, and neither does the number of rows written.
C1_CapNeverExceeded ==
    max_projects.type = "int" =>
        /\ Len(all_projects) <= max_projects.n
        /\ Len(csv_rows) <= max_projects.n

\* C2: with a positive cap, once the number of accepted records has reached the
\* cap no step fetches a page, harvests links, calls the model or accepts a
\* record: the only steps left lead to Persist.  With cap 1 and the first link
\* of the first page accepted, exactly one page was fetched and exactly one row
\* is written.
C2_StopsAtCap ==
    /\ [][PositiveCapReached =>
            /\ fetches' = fetches
            /\ harvests' = harvests
            /\ llm_calls' = llm_calls
            /\ all_projects' = all_projects
            /\ pc' \in {"persist", "done"}]_vars
    /\ []((/\ max_projects = PyInt(1)
           /\ accepted_from # <<>>
           /\ accepted_from[1].q = 1
           /\ accepted_from[1].l = 1)
          => /\ fetches = 1
             /\ harvests = 1
             /\ llm_calls = 1
             /\ pc \in {"link", "persist", "done"}
             /\ (pc = "done" => csv_writes = 1 /\ Len(csv_rows) = 1))

\* cap 1, two queries, a page of two links, the first accepted: the run ended
\* with one fetch, one harvest and one row
C2_Witness ==
    /\ pc = "done"
    /\ max_projects = PyInt(1)
    /\ Len(search_queries) = 2
    /\ Len(project_links) = 2
    /\ Len(accepted_from) = 1
    /\ accepted_from[1].q = 1
    /\ accepted_from[1].l = 1
    /\ fetches = 1
    /\ harvests = 1
    /\ Len(csv_rows) = 1

\* C3: once query generation has succeeded nothing ends the run early: the run
\* never stops on an uncaught error, whatever the harvests, fetches and
\* field-extraction responses are.
C3_RecoverableNeverStops == ~(pc = "crashed" /\ query_idx >= 1)

\* C4: a record is appended only for the link being processed, whose blob was
\* non-empty and at least MinBlobLen long and for which the model was called
\* and its response parsed; every record stems from one processed link of its
\* own for which all of this held.
C4_AcceptedOnlyAfterBothStages ==
    /\ [][all_projects' # all_projects =>
            /\ pc = "accept"
            /\ text_blob > 0
            /\ text_blob >= MinBlobLen
            /\ called
            /\ \E r \in ExtractResponses : r.valid /\ r.value = project_info
            /\ fetched_url = project_links[link_idx]
            /\ Len(all_projects') = Len(all_projects) + 1
            /\ SubSeq(all_projects', 1, Len(all_projects)) = all_projects]_vars
    /\ [](/\ Len(accepted_from) = Len(all_projects)
          /\ \A i \in 1..Len(all_projects) :
               /\ all_projects[i].type = "dict"
               /\ accepted_from[i].blob >= MinBlobLen
               /\ accepted_from[i].called
          /\ \A i, j \in 1..Len(accepted_from) :
               i # j => <<accepted_from[i].q, accepted_from[i].l>>
                        # <<accepted_from[j].q, accepted_from[j].l>>)

\* two records, accepted from links of two different queries
C4_Witness ==
    /\ Len(all_projects) = 2
    /\ accepted_from[1].q = 1
    /\ accepted_from[2].q = 2
    /\ accepted_from[2].blob = MinBlobLen

\* C5: when the query-generation response is not JSON after fence stripping the
\* run is aborted: no harvest, no fetch, no field-extraction call, no record,
\* and the CSV is never written.
C5_QueryParseErrorAborts ==
    (pc # "start" /\ ~json_loads(StripFences(response_text)).ok) =>
        /\ pc = "aborted"
        /\ harvests = 0
        /\ fetches = 0
        /\ llm_calls = 0
        /\ all_projects = <<>>
        /\ csv_writes = 0
        /\ csv_rows = <<>>

\* a fenced response that is still not JSON once the fences are stripped
C5_Witness ==
    /\ pc = "aborted"
    /\ response_text # <<>>
    /\ Head(response_text) = FENCE_JSON
    /\ ~json_loads(StripFences(response_text)).ok

\* C6: the CSV is written at most once and only when processing has ended; at
\* the end of every run it has been written exactly when a record was accepted,
\* and its rows are the accepted records, all of them, in acceptance order
\* (query order, then link order).
C6_CsvWrittenOnceIffAccepted ==
    /\ csv_writes <= 1
    /\ (csv_writes = 1 => pc = "done")
    /\ (RunEnded => (csv_writes = 1 <=> all_projects # <<>>))
    /\ (csv_writes = 1 =>
          /\ Len(csv_rows) = Len(all_projects)
          /\ \A i \in 1..Len(csv_rows) :
               csv_rows[i] = CsvRow(csv_columns, all_projects[i]))
    /\ \A i, j \in 1..Len(accepted_from) :
          i < j => \/ accepted_from[i].q < accepted_from[j].q
                   \/ /\ accepted_from[i].q = accepted_from[j].q
                      /\ accepted_from[i].l < accepted_from[j].l

\* C7: the url field of every accepted record is the link whose page was
\* fetched for it, also when the model response had a url key of its own.
C7_UrlIsSourceLink ==
    /\ pc \in {"extract", "accept"} =>
          fetched_url = url /\ url = project_links[link_idx]
    /\ \A i \in 1..Len(all_projects) :
          /\ InSeq("url", all_projects[i].keys)
          /\ all_projects[i].val["url"] = accepted_from[i].link
          /\ all_projects[i].val["url"] # ModelUrl

\* a record accepted from a response that had a url key of its own
C7_Witness ==
    \E i \in 1..Len(all_projects) :
        /\ all_projects[i].keys = <<"url", "title">>
        /\ all_projects[i].val["url"] = <<BASE, MARKER, "b">>

\* the index of the first hyperlink of page that qualifies to u
FirstHref(page, u) ==
    CHOOSE k \in 1..Len(page) :
        /\ HasMarker(page[k]) /\ Qualify(page[k]) = u
        /\ \A m \in 1..(k - 1) : ~(HasMarker(page[m]) /\ Qualify(page[m]) = u)

\* C8: the list built from the hyperlinks scanned so far has no duplicates,
\* holds exactly the qualified URLs of the targets with the marker, in order of
\* first occurrence; a relative and an absolute target of one URL give one
\* entry; at the end of the scan it is the list get_project_links returns.
C8_UniqueInFirstSeenOrder ==
    LET seen == SubSeq(hrefs, 1, scan_i)
    IN  /\ \A i, j \in 1..Len(links) : i # j => links[i] # links[j]
        /\ Range(links) = {Qualify(h) : h \in {x \in Range(seen) : HasMarker(x)}}
        /\ \A i, j \in 1..Len(links) :
              i < j => FirstHref(seen, links[i]) < FirstHref(seen, links[j])
        /\ \A u \in Range(links) : HasMarker(u) /\ StartsWithHttp(u)
        /\ ({<<MARKER, "a">>, <<BASE, MARKER, "a">>} \cap Range(seen) # {} =>
              Cardinality({i \in 1..Len(links) : links[i] = <<BASE, MARKER, "a">>}) = 1)
        /\ (scan_i = Len(hrefs) => links = get_project_links(hrefs))

\* a page with the relative and the absolute target of one project and another
\* project in between, scanned to the end
C8_Witness ==
    /\ scan_i = Len(hrefs)
    /\ hrefs = << <<MARKER, "a">>, <<MARKER, "b">>, <<BASE, MARKER, "a">> >>
    /\ links = << <<BASE, MARKER, "a">>, <<BASE, MARKER, "b">> >>

\* a required key holds a non-empty string
NonEmptyString(v) == v.type = "str" /\ v.n > 0

\* C9: load_config returns the triple exactly when the three required keys hold
\* non-empty strings, every returned field is a non-empty string, and the
\* validation error names exactly the keys that do not hold one.
C9_ReturnsIffNonEmptyStrings ==
    config_result.status # "pending" =>
        /\ config_result.status = "returned"
              <=> \A f \in Range(required_fields) : NonEmptyString(config[f])
        /\ config_result.status = "returned" =>
              \A i \in 1..Len(config_result.triple) :
                  NonEmptyString(config_result.triple[i])
        /\ config_result.status = "ValueError" =>
              config_result.missing =
                  SelectSeq(required_fields, LAMBDA f : ~NonEmptyString(config[f]))

\* C10: no model call is made for a blob shorter than MinBlobLen, which yields
\* no result; the number of field-extraction calls is the number of fetched
\* links whose blob had at least MinBlobLen characters, one call per link at most.
C10_NoCallForShortBlob ==
    /\ [][/\ llm_calls' # llm_calls =>
               /\ llm_calls' = llm_calls + 1
               /\ pc = "extract"
               /\ text_blob >= MinBlobLen
               /\ ~called
          /\ (pc = "extract" /\ text_blob < MinBlobLen) =>
               /\ llm_calls' = llm_calls
               /\ project_info' = PyNone]_vars
    /\ [](/\ llm_calls + (IF pc = "extract" /\ text_blob >= MinBlobLen THEN 1 ELSE 0)
               = long_links
          /\ llm_calls <= fetches
          /\ (RunEnded => llm_calls = long_links))

\* a short blob went through extract_project_info with no call, after a call
\* was made for an earlier link
C10_Witness ==
    /\ pc = "accept"
    /\ text_blob = MinBlobLen - 1
    /\ project_info = PyNone
    /\ ~called
    /\ llm_calls = 1
    /\ fetches = 2

====
